---- MODULE Spec2Model ----
(***************************************************************************)
(* Transaction webhook service (backend/python_backend/main.py).           *)
(*                                                                         *)
(* State: the transactions table, the webhook requests in flight (each     *)
(* with its own database transaction), the background completion tasks,    *)
(* the clock the database stamps rows with, and the response of the last   *)
(* query.  One action per handler step; a step ends where the handler      *)
(* talks to the database or awaits.                                        *)
(***************************************************************************)
EXTENDS Integers, Sequences, FiniteSets, Bags, TLC

VARIABLES
    store,      \* committed rows of table transactions
    nextId,     \* next value of the SERIAL sequence behind column id
    clock,      \* database time (CURRENT_TIMESTAMP / NOW())
    req,        \* bag of webhook deliveries: handler position, payload, open
                \* transaction, and the background task the handler added
    resp        \* response of the query that ran last, if the last step was one

vars == <<store, nextId, clock, req, resp>>

(***************************************************************************)
(* Bounds of the model.                                                    *)
(***************************************************************************)
MaxReq == 2         \* webhook deliveries
MaxClock == 1       \* latest time the clock reaches

(***************************************************************************)
(* Program constants.                                                      *)
(***************************************************************************)
NULL == -1                  \* SQL NULL / Python None in a timestamp column
MaxLimit == 1000            \* limit = min(limit, 1000)
CurrencyLen == 3            \* currency VARCHAR(3)
DecimalPrecision == 10      \* amount DECIMAL(10, 2)
DecimalScale == 2
AcceptedCode == 202         \* @app.post(..., status_code=202)
UnprocessableCode == 422    \* request validation failure (WebhookRequest)
OkCode == 200
NotFoundCode == 404
ServerErrorCode == 500

(***************************************************************************)
(* Payloads.  An amount is a decimal number given as whole units and       *)
(* thousandths, so that a payload can carry more digits than the column    *)
(* DECIMAL(10, 2) keeps.                                                   *)
(***************************************************************************)
Amt(w, f) == [whole |-> w, frac |-> f]

Payload(t, s, d, a, c) ==
    [transaction_id |-> t, source_account |-> s, destination_account |-> d,
     amount |-> a, currency |-> c]

\* The bodies delivered: a well-formed one; one with the same transaction_id
\* and other, degenerate fields (empty accounts, less than half a cent, a
\* two-letter currency); one with an empty transaction_id; one with amount 0;
\* and two whose values the table's columns do not take.
Payloads ==
    { Payload("tx1", "A", "B", Amt(100, 0), "USD"),
      Payload("tx1", "", "", Amt(0, 4), "US"),
      Payload("", "A", "B", Amt(250, 500), "EUR"),
      Payload("tx1", "A", "B", Amt(0, 0), "USD"),
      Payload("tx1", "A", "B", Amt(100, 0), "USDX"),
      Payload("tx1", "A", "B", Amt(10^(DecimalPrecision - DecimalScale), 0), "USD") }

\* The transaction ids delivered.
Tids == {p.transaction_id : p \in Payloads}

\* WebhookRequest: five required fields, amount: float = Field(..., gt=0).
\* The strings carry no constraint.
AmountPositive(a) == a.whole > 0 \/ (a.whole = 0 /\ a.frac > 0)

ValidWebhookRequest(p) == AmountPositive(p.amount)

\* A value written to amount DECIMAL(10, 2): rounded to two decimals.
ToDecimal2(a) ==
    LET c == (a.frac + 5) \div 10
    IN  IF c = 100 THEN [whole |-> a.whole + 1, cents |-> 0]
                   ELSE [whole |-> a.whole, cents |-> c]

\* Mutant of ColumnsAccept: currency TEXT and amount NUMERIC, with no limit.
ColumnsAcceptAll(p) == Len(p.currency) >= 0

\* The column constraints of table transactions the INSERT can violate.
ColumnsAccept(p) ==
    /\ Len(p.currency) <= CurrencyLen
    /\ ToDecimal2(p.amount).whole < 10^(DecimalPrecision - DecimalScale)

\* float(t["amount"])
ToFloat(d) == Amt(d.whole, d.cents * 10)

\* t["created_at"].isoformat() + "Z", None for a NULL processed_at
IsoZ(ts) == [iso |-> ts, suffix |-> "Z"]

None == [iso |-> NULL, suffix |-> ""]

IsoZOrNone(ts) == IF ts # NULL THEN IsoZ(ts) ELSE None

(***************************************************************************)
(* The table.                                                              *)
(***************************************************************************)
\* Mutant of NewRow: processed_at defaults to CURRENT_TIMESTAMP as the other
\* two timestamp columns do.
NewRowStamped(id, p, now) ==
    [id |-> id,
     transaction_id |-> p.transaction_id,
     source_account |-> p.source_account,
     destination_account |-> p.destination_account,
     amount |-> ToDecimal2(p.amount),
     currency |-> p.currency,
     status |-> "PROCESSING",
     created_at |-> now,
     processed_at |-> now,
     updated_at |-> now]

\* INSERT INTO transactions (...) VALUES (..., 'PROCESSING'): id from the
\* sequence, created_at and updated_at by default, processed_at NULL.
NewRow(id, p, now) ==
    [id |-> id,
     transaction_id |-> p.transaction_id,
     source_account |-> p.source_account,
     destination_account |-> p.destination_account,
     amount |-> ToDecimal2(p.amount),
     currency |-> p.currency,
     status |-> "PROCESSING",
     created_at |-> now,
     processed_at |-> NULL,
     updated_at |-> now]

RowsOf(tid) == {row \in store : row.transaction_id = tid}

\* Mutant of MarkProcessed: the UPDATE sets the status and forgets
\* processed_at = NOW().
MarkProcessedNoStamp(row, now) ==
    [row EXCEPT !.status = "PROCESSED", !.updated_at = now]

\* UPDATE ... SET status = 'PROCESSED', processed_at = NOW(), updated_at = NOW()
MarkProcessed(row, now) ==
    [row EXCEPT !.status = "PROCESSED", !.processed_at = now, !.updated_at = now]

(***************************************************************************)
(* Deliveries and their tasks.  Deliveries have no identity beyond their   *)
(* state, so they are kept as a bag.                                       *)
(***************************************************************************)
NoPending == {}

\* What the caller of the webhook is answered.
NoResponse == [code |-> 0, message |-> ""]

\* return {"message": "Accepted"} under status_code=202
Accepted == [code |-> AcceptedCode, message |-> "Accepted"]

\* The framework's answer to a body that fails WebhookRequest.
Unprocessable == [code |-> UnprocessableCode, message |-> "validation error"]

\* A delivery whose handler has just been entered with body p.
Received(p) ==
    [pc |-> "received", payload |-> p, result |-> FALSE, pending |-> NoPending,
     txStart |-> NULL, response |-> NoResponse, log |-> "", task |-> "none",
     now |-> NULL, ids |-> {}]

Requests == BagToSet(req)

\* The bag with delivery q moved to state q2.
Moved(q, q2) == (req (-) SetToBag({q})) (+) SetToBag({q2})

NoResp == [op |-> "none"]

\* Database time at the next statement: time may have passed since the last.
Nows == {t \in {clock, clock + 1} : t <= MaxClock}

Init ==
    /\ store = {}
    /\ nextId = 1
    /\ clock = 0
    /\ req = EmptyBag
    /\ resp = NoResp

(***************************************************************************)
(* POST /v1/webhooks/transactions                                          *)
(***************************************************************************)
\* The request body fails WebhookRequest: the framework answers 422 and
\* receive_webhook is not called.
RejectWebhook(p) ==
    /\ BagCardinality(req) < MaxReq
    /\ ~ValidWebhookRequest(p)
    /\ req' = req (+) SetToBag({[Received(p) EXCEPT
                  !.pc = "responded", !.response = Unprocessable]})
    /\ UNCHANGED <<store, nextId, clock, resp>>

\* receive_webhook is entered with a validated body.
ReceiveWebhook(p) ==
    /\ BagCardinality(req) < MaxReq
    /\ ValidWebhookRequest(p)
    /\ req' = req (+) SetToBag({Received(p)})
    /\ UNCHANGED <<store, nextId, clock, resp>>

\* Another delivery's transaction holds an uncommitted row with this
\* transaction_id: the INSERT waits for that transaction to end.
InsertBlocked(q) ==
    \E o \in Requests :
        /\ o.pc = "executed"
        /\ \E row \in o.pending : row.transaction_id = q.payload.transaction_id

\* Mutant of Swallowed: the except branch answers 500, as the read
\* endpoints do.
SwallowedAsServerError(q) ==
    [q EXCEPT !.pc = "responded", !.result = FALSE, !.pending = NoPending,
              !.txStart = NULL, !.log = "error",
              !.response = [code |-> ServerErrorCode, message |-> "Internal server error"]]

\* Mutant of Swallowed: the except branch adds the completion task before it
\* returns.
SwallowedSchedules(q) ==
    [q EXCEPT !.pc = "responded", !.result = FALSE, !.pending = NoPending,
              !.txStart = NULL, !.log = "error", !.response = Accepted,
              !.task = "scheduled"]

\* except Exception: print("Webhook error ..."); return {"message": "Accepted"}
Swallowed(q) ==
    [q EXCEPT !.pc = "responded", !.result = FALSE, !.pending = NoPending,
              !.txStart = NULL, !.log = "error", !.response = Accepted]

\* Mutant of InsertIfAbsent: a plain INSERT, with no ON CONFLICT arbiter and
\* no unique index to stop it.
InsertAlways(q, txStart) ==
    [q EXCEPT !.pc = "executed", !.result = TRUE,
              !.pending = {NewRow(nextId, q.payload, txStart)},
              !.txStart = txStart]

\* INSERT ... ON CONFLICT (transaction_id) DO NOTHING RETURNING transaction_id,
\* in the transaction that began at txStart; result = cursor.fetchone().
InsertIfAbsent(q, txStart) ==
    IF RowsOf(q.payload.transaction_id) # {}
    THEN [q EXCEPT !.pc = "executed", !.result = FALSE, !.pending = NoPending,
                   !.txStart = txStart]
    ELSE [q EXCEPT !.pc = "executed", !.result = TRUE,
                   !.pending = {NewRow(nextId, q.payload, txStart)},
                   !.txStart = txStart]

\* conn = get_db(); cursor.execute(INSERT ...).  A value no column takes
\* raises; a conflicting row still uncommitted makes the statement wait.
Insert(q) ==
    /\ q.pc = "received"
    /\ \E now \in Nows :
          /\ clock' = now
          /\ IF ~ColumnsAccept(q.payload)
             THEN req' = Moved(q, Swallowed(q)) /\ nextId' = nextId + 1
             ELSE IF InsertBlocked(q)
             THEN /\ req' = Moved(q, [q EXCEPT !.pc = "waiting", !.txStart = now])
                  /\ nextId' = nextId
             ELSE req' = Moved(q, InsertIfAbsent(q, now)) /\ nextId' = nextId + 1
    /\ UNCHANGED <<store, resp>>

\* The transaction the INSERT waited for has ended.
InsertResume(q) ==
    /\ q.pc = "waiting"
    /\ ~InsertBlocked(q)
    /\ req' = Moved(q, InsertIfAbsent(q, q.txStart))
    /\ nextId' = nextId + 1
    /\ UNCHANGED <<store, clock, resp>>

\* get_db() or cursor.execute raises (store unreachable).
InsertFail(q) ==
    /\ q.pc \in {"received", "waiting"}
    /\ req' = Moved(q, Swallowed(q))
    /\ UNCHANGED <<store, nextId, clock, resp>>

\* Mutant of Commit: the handler goes on without the row having been stored.
CommitLosesRow(q) ==
    /\ q.pc = "executed"
    /\ req' = Moved(q, [q EXCEPT !.pc = "committed", !.pending = NoPending,
                                 !.txStart = NULL])
    /\ UNCHANGED <<store, nextId, clock, resp>>

\* Mutant of Commit: ON CONFLICT (transaction_id) DO UPDATE, the duplicate's
\* values replacing the stored ones.
CommitOverwrites(q) ==
    /\ q.pc = "executed"
    /\ store' = {IF row.transaction_id = q.payload.transaction_id /\ ~q.result
                   THEN [row EXCEPT !.source_account = q.payload.source_account,
                                    !.destination_account = q.payload.destination_account,
                                    !.amount = ToDecimal2(q.payload.amount),
                                    !.currency = q.payload.currency]
                   ELSE row : row \in store} \cup q.pending
    /\ req' = Moved(q, [q EXCEPT !.pc = "committed", !.pending = NoPending,
                                 !.txStart = NULL])
    /\ UNCHANGED <<nextId, clock, resp>>

\* conn.commit()
Commit(q) ==
    /\ q.pc = "executed"
    /\ store' = store \cup q.pending
    /\ req' = Moved(q, [q EXCEPT !.pc = "committed", !.pending = NoPending,
                                 !.txStart = NULL])
    /\ UNCHANGED <<nextId, clock, resp>>

\* Mutant of CommitFail: the row is stored although the handler takes the
\* except branch.
CommitFailStored(q) ==
    /\ q.pc = "executed"
    /\ store' = store \cup q.pending
    /\ req' = Moved(q, Swallowed(q))
    /\ UNCHANGED <<nextId, clock, resp>>

\* conn.commit() raises: the transaction is rolled back.
CommitFail(q) ==
    /\ q.pc = "executed"
    /\ req' = Moved(q, Swallowed(q))
    /\ UNCHANGED <<store, nextId, clock, resp>>

\* Mutant of Respond: the handler awaits process_transaction(...) instead of
\* handing it to background_tasks, and returns when the record is PROCESSED.
RespondInline(q) ==
    /\ q.pc = "committed"
    /\ store' = IF q.result
                THEN {IF row.transaction_id = q.payload.transaction_id
                        THEN MarkProcessed(row, clock) ELSE row : row \in store}
                ELSE store
    /\ req' = Moved(q, [q EXCEPT !.pc = "responded", !.response = Accepted,
                                 !.log = IF q.result THEN "accepted" ELSE "duplicate",
                                 !.task = IF q.result THEN "done" ELSE "none"])
    /\ UNCHANGED <<nextId, clock, resp>>

\* Mutant of Respond: the task is added for a duplicate too.
RespondAlwaysSchedules(q) ==
    /\ q.pc = "committed"
    /\ req' = Moved(q, [q EXCEPT !.pc = "responded", !.response = Accepted,
                                 !.log = IF q.result THEN "accepted" ELSE "duplicate",
                                 !.task = "scheduled"])
    /\ UNCHANGED <<store, nextId, clock, resp>>

\* Mutant of Respond: the handler forgets background_tasks.add_task.
RespondNeverSchedules(q) ==
    /\ q.pc = "committed"
    /\ req' = Moved(q, [q EXCEPT !.pc = "responded", !.response = Accepted,
                                 !.log = IF q.result THEN "accepted" ELSE "duplicate"])
    /\ UNCHANGED <<store, nextId, clock, resp>>

\* if result is None: print("Duplicate webhook received ...")
\* else: background_tasks.add_task(process_transaction, ...); print("Webhook
\* accepted ..."); then return {"message": "Accepted"}
Respond(q) ==
    /\ q.pc = "committed"
    /\ req' = Moved(q, [q EXCEPT !.pc = "responded", !.response = Accepted,
                                 !.log = IF q.result THEN "accepted" ELSE "duplicate",
                                 !.task = IF q.result THEN "scheduled" ELSE "none"])
    /\ UNCHANGED <<store, nextId, clock, resp>>

(***************************************************************************)
(* process_transaction, run by the framework after the response is sent.   *)
(***************************************************************************)
TaskStart(q) ==
    /\ q.task = "scheduled"
    /\ q.pc = "responded"
    /\ req' = Moved(q, [q EXCEPT !.task = "sleeping"])
    /\ UNCHANGED <<store, nextId, clock, resp>>

\* asyncio.sleep(30) returns; conn = get_db(); cursor.execute(UPDATE ...
\* WHERE transaction_id = %s)
TaskUpdate(q) ==
    /\ q.task = "sleeping"
    /\ \E now \in Nows :
          /\ clock' = now
          /\ req' = Moved(q, [q EXCEPT !.task = "updated", !.now = now,
                    !.ids = {row.id : row \in RowsOf(q.payload.transaction_id)}])
    /\ UNCHANGED <<store, nextId, resp>>

\* The slow step, get_db() or cursor.execute raises: except Exception, no raise.
TaskFail(q) ==
    /\ q.task = "sleeping"
    /\ req' = Moved(q, [q EXCEPT !.task = "failed"])
    /\ UNCHANGED <<store, nextId, clock, resp>>

\* Mutant of TaskCommit: the UPDATE has no WHERE clause.
TaskCommitAll(q) ==
    /\ q.task = "updated"
    /\ store' = {MarkProcessed(row, q.now) : row \in store}
    /\ req' = Moved(q, [q EXCEPT !.task = "done", !.now = NULL, !.ids = {}])
    /\ UNCHANGED <<nextId, clock, resp>>

\* conn.commit()
TaskCommit(q) ==
    /\ q.task = "updated"
    /\ store' = {IF row.id \in q.ids THEN MarkProcessed(row, q.now) ELSE row
                   : row \in store}
    /\ req' = Moved(q, [q EXCEPT !.task = "done", !.now = NULL, !.ids = {}])
    /\ UNCHANGED <<nextId, clock, resp>>

\* Mutant of TaskCommitFail: the update is kept although the task reports
\* the failure.
TaskCommitFailApplied(q) ==
    /\ q.task = "updated"
    /\ store' = {IF row.id \in q.ids THEN MarkProcessed(row, q.now) ELSE row
                   : row \in store}
    /\ req' = Moved(q, [q EXCEPT !.task = "failed", !.now = NULL, !.ids = {}])
    /\ UNCHANGED <<nextId, clock, resp>>

\* conn.commit() raises: the update is rolled back.
TaskCommitFail(q) ==
    /\ q.task = "updated"
    /\ req' = Moved(q, [q EXCEPT !.task = "failed", !.now = NULL, !.ids = {}])
    /\ UNCHANGED <<store, nextId, clock, resp>>

(***************************************************************************)
(* GET /v1/transactions/{transaction_id}                                   *)
(***************************************************************************)
\* The dict both read endpoints build from a row.
TransactionResponse(row) ==
    [transaction_id |-> row.transaction_id,
     source_account |-> row.source_account,
     destination_account |-> row.destination_account,
     amount |-> ToFloat(row.amount),
     currency |-> row.currency,
     status |-> row.status,
     created_at |-> IsoZ(row.created_at),
     processed_at |-> IsoZOrNone(row.processed_at)]

GetTids == {"tx1", "unknown"}

\* Mutant of GetTransaction: without "except HTTPException: raise" the 404
\* raised for a missing row is caught by "except Exception" and becomes 500.
GetTransactionNoReraise(tid) ==
    /\ IF RowsOf(tid) = {}
       THEN resp' = [op |-> "get", tid |-> tid, code |-> ServerErrorCode, cause |-> "none"]
       ELSE \E row \in RowsOf(tid) :
               resp' = [op |-> "get", tid |-> tid, code |-> OkCode, cause |-> "none",
                        body |-> TransactionResponse(row)]
    /\ UNCHANGED <<store, nextId, clock, req>>

\* Mutant of GetTransaction: the read touches updated_at of the row it
\* returns.
GetTransactionTouches(tid) ==
    /\ IF RowsOf(tid) = {}
       THEN resp' = [op |-> "get", tid |-> tid, code |-> NotFoundCode, cause |-> "none"]
       ELSE \E row \in RowsOf(tid) :
               resp' = [op |-> "get", tid |-> tid, code |-> OkCode, cause |-> "none",
                        body |-> TransactionResponse(row)]
    /\ store' = {IF row.transaction_id = tid THEN [row EXCEPT !.updated_at = MaxClock + 1]
                                             ELSE row : row \in store}
    /\ UNCHANGED <<nextId, clock, req>>

\* SELECT * FROM transactions WHERE transaction_id = %s; fetchone();
\* 404 when there is no row.
GetTransaction(tid) ==
    /\ IF RowsOf(tid) = {}
       THEN resp' = [op |-> "get", tid |-> tid, code |-> NotFoundCode, cause |-> "none"]
       ELSE \E row \in RowsOf(tid) :
               resp' = [op |-> "get", tid |-> tid, code |-> OkCode, cause |-> "none",
                        body |-> TransactionResponse(row)]
    /\ UNCHANGED <<store, nextId, clock, req>>

\* get_db() or the SELECT raises: except Exception -> 500.
GetTransactionFail ==
    /\ resp' = [op |-> "get", code |-> ServerErrorCode, cause |-> "store"]
    /\ UNCHANGED <<store, nextId, clock, req>>

(***************************************************************************)
(* GET /v1/transactions?limit=&offset=                                     *)
(***************************************************************************)
Min(a, b) == IF a < b THEN a ELSE b

\* (limit, offset) of the requests made: the whole table through a limit
\* above the maximum, windows inside it, an offset no table of the model
\* reaches, and negative values.
ListArgs ==
    { <<5000, 0>>, <<1, 0>>, <<1, 1>>, <<2, 1>>, <<5000, MaxReq>>,
      <<-1, MaxReq>>, <<1, -1>> }

\* Mutant of NewestFirst: ORDER BY created_at, without DESC.
OldestFirst(rows) ==
    {s \in [1..Cardinality(rows) -> rows] :
        /\ \A i, j \in 1..Cardinality(rows) : i # j => s[i] # s[j]
        /\ \A i, j \in 1..Cardinality(rows) :
               i < j => s[i].created_at <= s[j].created_at}

\* ORDER BY created_at DESC: every order of the rows that has no row before
\* a newer one (rows with equal created_at come in any order).
NewestFirst(rows) ==
    {s \in [1..Cardinality(rows) -> rows] :
        /\ \A i, j \in 1..Cardinality(rows) : i # j => s[i] # s[j]
        /\ \A i, j \in 1..Cardinality(rows) :
               i < j => s[i].created_at >= s[j].created_at}

\* LIMIT lim OFFSET off
Window(s, lim, off) == SubSeq(s, off + 1, Min(off + lim, Len(s)))

\* limit = min(limit, 1000); SELECT ... ORDER BY created_at DESC LIMIT %s OFFSET %s.
\* The database refuses a negative LIMIT or OFFSET: except Exception -> 500.
GetAllTransactions(limit, offset) ==
    /\ LET lim == Min(limit, MaxLimit)
       IN  IF lim < 0 \/ offset < 0
           THEN resp' = [op |-> "list", limit |-> limit, offset |-> offset,
                         sqlLimit |-> lim, code |-> ServerErrorCode, cause |-> "sql"]
           ELSE \E s \in NewestFirst(store) :
                   resp' = [op |-> "list", limit |-> limit, offset |-> offset,
                            sqlLimit |-> lim, code |-> OkCode, cause |-> "none",
                            body |-> [i \in 1..Len(Window(s, lim, offset)) |->
                                        TransactionResponse(Window(s, lim, offset)[i])]]
    /\ UNCHANGED <<store, nextId, clock, req>>

\* get_db() or the SELECT raises for want of the store: except Exception -> 500.
GetAllTransactionsFail ==
    /\ resp' = [op |-> "list", code |-> ServerErrorCode, cause |-> "store"]
    /\ UNCHANGED <<store, nextId, clock, req>>

\* The answer of the last query has gone out.
ResponseSent ==
    /\ resp # NoResp
    /\ resp' = NoResp
    /\ UNCHANGED <<store, nextId, clock, req>>

(***************************************************************************)
(* Specifications.                                                         *)
(***************************************************************************)
\* A step of a handler or of a task in which nothing fails.
Progress ==
    \E q \in Requests :
        \/ Insert(q)
        \/ InsertResume(q)
        \/ Commit(q)
        \/ Respond(q)
        \/ TaskStart(q)
        \/ TaskUpdate(q)
        \/ TaskCommit(q)

\* The webhook pipeline alone, with neither the store nor the slow step
\* failing.
FairNext ==
    \/ \E p \in Payloads : RejectWebhook(p)
    \/ \E p \in Payloads : ReceiveWebhook(p)
    \/ \E q \in Requests : Insert(q)
    \/ \E q \in Requests : InsertResume(q)
    \/ \E q \in Requests : Commit(q)
    \/ \E q \in Requests : Respond(q)
    \/ \E q \in Requests : TaskStart(q)
    \/ \E q \in Requests : TaskUpdate(q)
    \/ \E q \in Requests : TaskCommit(q)

\* No query's answer is on its way out.  A query reads the table in one
\* statement and changes nothing, so the steps of the other handlers are
\* taken between a query's answer and the next query.
Quiet == resp = NoResp

Next ==
    \/ Quiet /\ \E p \in Payloads : RejectWebhook(p)
    \/ Quiet /\ \E p \in Payloads : ReceiveWebhook(p)
    \/ Quiet /\ \E q \in Requests : Insert(q)
    \/ Quiet /\ \E q \in Requests : InsertResume(q)
    \/ Quiet /\ \E q \in Requests : InsertFail(q)
    \/ Quiet /\ \E q \in Requests : Commit(q)
    \/ Quiet /\ \E q \in Requests : CommitFail(q)
    \/ Quiet /\ \E q \in Requests : Respond(q)
    \/ Quiet /\ \E q \in Requests : TaskStart(q)
    \/ Quiet /\ \E q \in Requests : TaskUpdate(q)
    \/ Quiet /\ \E q \in Requests : TaskFail(q)
    \/ Quiet /\ \E q \in Requests : TaskCommit(q)
    \/ Quiet /\ \E q \in Requests : TaskCommitFail(q)
    \/ Quiet /\ \E tid \in GetTids : GetTransaction(tid)
    \/ Quiet /\ GetTransactionFail
    \/ Quiet /\ \E a \in ListArgs : GetAllTransactions(a[1], a[2])
    \/ Quiet /\ GetAllTransactionsFail
    \/ ResponseSent

Spec == Init /\ [][Next]_vars

\* A handler that has been entered runs to its return, and the event loop
\* runs every task that was added.  Nothing fails.
FairSpec == Init /\ [][FairNext]_vars /\ WF_vars(Progress)

(***************************************************************************)
(* The UPDATE of process_transaction on its own, applied to any table the   *)
(* service can hold and as often as one likes.                              *)
(***************************************************************************)
\* The payloads a row can come from.
Storable == {p \in Payloads : ValidWebhookRequest(p) /\ ColumnsAccept(p)}

\* The rows a table can hold at time now: inserted at some time, and
\* possibly marked processed at a later one.
RowsAt(now) ==
    LET Fresh == {NewRow(IF p.transaction_id = "tx1" THEN 1 ELSE 2, p, c) :
                     p \in Storable, c \in 0..now}
    IN  Fresh \cup {MarkProcessed(row, t) : row \in Fresh, t \in 0..now}

\* A table has one row for a transaction_id at most, and a row is processed
\* no earlier than it was created.
TablesAt(now) ==
    {t \in SUBSET RowsAt(now) :
        /\ t # {}
        /\ \A a, b \in t : a.transaction_id = b.transaction_id => a = b
        /\ \A a \in t : a.processed_at # NULL => a.processed_at >= a.created_at}

InitUpdate ==
    /\ clock \in 0..MaxClock
    /\ store \in TablesAt(clock)
    /\ nextId = 3
    /\ req = EmptyBag
    /\ resp = NoResp

\* UPDATE transactions SET status = 'PROCESSED', processed_at = NOW(),
\* updated_at = NOW() WHERE transaction_id = %s RETURNING *; conn.commit().
\* resp keeps the rows the statement matched and what it returned.
UpdateApply(tid) ==
    \E now \in Nows :
        /\ clock' = now
        /\ store' = {IF row.transaction_id = tid THEN MarkProcessed(row, now) ELSE row
                       : row \in store}
        /\ resp' = [op |-> "update", tid |-> tid, before |-> RowsOf(tid),
                    returning |-> {MarkProcessed(row, now) : row \in RowsOf(tid)}]
        /\ UNCHANGED <<nextId, req>>

UpdateNext == \E tid \in GetTids \cup Tids : UpdateApply(tid)

UpdateSpec == InitUpdate /\ [][UpdateNext]_vars

(***************************************************************************)
(* Properties.                                                             *)
(***************************************************************************)
\* The number of deliveries in the bag that satisfy Test.
Count(Test(_)) ==
    BagCardinality([q \in {x \in Requests : Test(x)} |-> CopiesIn(q, req)])

\* The handler of q got a row back from its INSERT and committed it.
InsertCommitted(q) == q.result /\ q.pc \in {"committed", "responded"}

\* process_transaction has been entered for q's task.
TaskStarted(q) == q.task \in {"sleeping", "updated", "done", "failed"}

\* C1 (idempotency): whatever deliveries carry a transaction_id, and however
\* they interleave, the table never holds two rows with it, holds exactly
\* one once an insert of it has been committed, and at most one run of
\* process_transaction is ever started for it.
C1_Idempotent ==
    \A tid \in Tids :
        LET Inserted(q) == q.payload.transaction_id = tid /\ InsertCommitted(q)
            Started(q) == q.payload.transaction_id = tid /\ TaskStarted(q)
        IN  /\ Cardinality(RowsOf(tid)) <= 1
            /\ Count(Inserted) >= 1 => Cardinality(RowsOf(tid)) = 1
            /\ Count(Inserted) <= 1
            /\ Count(Started) <= 1

\* Two deliveries of tx1 have both been answered, one row is stored and its
\* completion has been started.
C1_Witness ==
    LET OfTx1(q) == q.payload.transaction_id = "tx1" /\ q.response = Accepted
        Started(q) == q.payload.transaction_id = "tx1" /\ TaskStarted(q)
    IN  /\ Count(OfTx1) >= 2
        /\ Cardinality(RowsOf("tx1")) = 1
        /\ Count(Started) = 1

\* C2 as stated: every webhook request is answered 202 {"message":
\* "Accepted"}, a body that fails validation included.
C2_AlwaysAccepted ==
    \A q \in Requests : q.pc = "responded" => q.response = Accepted

\* C2 as amended: every request whose body passes WebhookRequest is answered
\* 202 {"message": "Accepted"} (new, duplicate, refused by a column, store
\* failure); a body that fails it (amount <= 0) is answered 422 and the
\* handler does not run.
C2_AcceptedIffValid ==
    \A q \in Requests :
        /\ q.pc = "responded" =>
              q.response = IF ValidWebhookRequest(q.payload) THEN Accepted
                                                             ELSE Unprocessable
        /\ q.pc # "responded" => q.response = NoResponse
        /\ ~ValidWebhookRequest(q.payload) =>
              q.pc = "responded" /\ ~q.result /\ q.task = "none"

\* A duplicate has been answered 202 after the delivery that stored the
\* transaction.
C2_Witness ==
    /\ \E q \in Requests : q.response = Accepted /\ q.log = "duplicate"
    /\ \E q \in Requests : q.response = Accepted /\ q.log = "accepted"

\* Deliveries that have been answered.
Answered(q) == q.pc = "responded"

C3_State ==
    /\ \A q \in Requests :
          \* the handler that inserted is answered while its record is PROCESSING
          /\ q.result /\ (q.pc = "committed" \/ (Answered(q) /\ q.task = "scheduled"))
                => \E row \in RowsOf(q.payload.transaction_id) :
                       row.status = "PROCESSING" /\ row.processed_at = NULL
          \* whatever the tasks are doing, a committed handler can answer
          /\ q.pc = "committed" => ENABLED Respond(q)
          \* a task exists only once its handler has answered
          /\ q.task # "none" => Answered(q) /\ q.response = Accepted
    /\ \A row \in store :
          row.status = "PROCESSED" =>
              \E q \in Requests :
                  /\ q.payload.transaction_id = row.transaction_id
                  /\ q.log = "accepted" /\ Answered(q) /\ q.task = "done"

\* The step in which a handler answers leaves every record as it was.
C3_Step == Count(Answered)' > Count(Answered) => store' = store

\* C3 (non-blocking acceptance): the handler that inserted a transaction
\* answers 202 while the record is still PROCESSING; its answer can be given
\* whatever any completion task is doing and changes no record; a record
\* becomes PROCESSED only after the request that inserted it was answered.
C3_NonBlocking == [](C3_State) /\ [][C3_Step]_vars

\* A completion task is in its slow step, its record is PROCESSING, and
\* the handler of another delivery is about to answer.
C3_Witness ==
    /\ \E q \in Requests :
          /\ q.response = Accepted /\ q.task = "sleeping"
          /\ \E row \in RowsOf(q.payload.transaction_id) : row.status = "PROCESSING"
    /\ \E o \in Requests : o.pc = "committed"

\* What a step may do to a stored row: keep it in the table, keep it
\* PROCESSED once it is, and keep its processed_at once it is set.
C4_Step ==
    \A row \in store :
        \E after \in store' :
            /\ after.id = row.id
            /\ after.transaction_id = row.transaction_id
            /\ row.status = "PROCESSED" => after.status = "PROCESSED"
            /\ row.processed_at # NULL => after.processed_at = row.processed_at

\* C4 (monotonic transition): in every behaviour a record that is PROCESSED
\* never becomes PROCESSING again and a processed_at that is set never
\* changes, whatever webhooks (duplicates included) and tasks run later.
C4_Monotonic == [][C4_Step]_vars

\* A record is PROCESSED, time has passed since, and the handler of a
\* duplicate of it has run its INSERT and committed.
C4_Witness ==
    \E row \in store, q \in Requests :
        /\ row.status = "PROCESSED" /\ row.processed_at # NULL
        /\ clock > row.processed_at
        /\ q.payload.transaction_id = row.transaction_id
        /\ ~q.result /\ q.pc = "committed"

\* C5 (read consistency): a GET of a transaction whose insert has been
\* committed, answered by the store, returns 200; it shows PROCESSING with
\* no processed_at until the completion task's update is committed, and
\* PROCESSED with a processed_at from then on.
C5_ReadConsistency ==
    resp.op = "get" /\ resp.cause = "none" =>
        LET Inserted(q) == q.payload.transaction_id = resp.tid /\ InsertCommitted(q)
            Updated(q) == q.payload.transaction_id = resp.tid /\ q.task = "done"
        IN  Count(Inserted) >= 1 =>
               /\ resp.code = OkCode
               /\ IF Count(Updated) >= 1
                  THEN /\ resp.body.status = "PROCESSED"
                       /\ resp.body.processed_at # None
                       /\ resp.body.processed_at.iso # NULL
                  ELSE /\ resp.body.status = "PROCESSING"
                       /\ resp.body.processed_at = None

\* tx1 is read as PROCESSED, with its processed_at, after its task's
\* update was committed.
C5_Witness ==
    /\ resp.op = "get" /\ resp.code = OkCode
    /\ resp.body.status = "PROCESSED" /\ resp.body.processed_at # None
    /\ \E q \in Requests : q.payload.transaction_id = resp.tid /\ q.task = "done"

\* The payload of the scenario: tx1, A -> B, 100.00 USD.
PayloadTx1 == Payload("tx1", "A", "B", Amt(100, 0), "USD")

\* Two handlers hold that payload at once, neither having committed.
C6_Concurrent ==
    LET InFlight(q) ==
            q.payload = PayloadTx1 /\ q.pc \in {"received", "waiting", "executed"}
    IN  Count(InFlight) >= 2

C6_Settled ==
    /\ \A q \in Requests : q.payload = PayloadTx1 => q.response = Accepted
    /\ Cardinality(RowsOf("tx1")) = 1
    /\ \A row \in RowsOf("tx1") :
          row.status = "PROCESSED" /\ row.processed_at # NULL

\* C6 (scenario): when the same valid payload for tx1 is posted twice
\* concurrently and nothing fails, then under fair scheduling both requests
\* are answered 202, one tx1 record is stored, and from some point on it is
\* PROCESSED for good.
C6_ConcurrentDuplicates == [](C6_Concurrent => <>[]C6_Settled)

\* The race itself: one handler holds the uncommitted tx1 row and the INSERT
\* of the other waits for it.
C6_Witness ==
    \E q \in Requests, o \in Requests :
        /\ q.payload = PayloadTx1 /\ q.pc = "executed" /\ q.result
        /\ o.payload = PayloadTx1 /\ o.pc = "waiting"

\* The structural validation the specification describes: non-empty
\* identifiers, a positive amount, a three-letter currency.
StructurallyValid(p) ==
    /\ p.transaction_id # "" /\ p.source_account # "" /\ p.destination_account # ""
    /\ AmountPositive(p.amount)
    /\ Len(p.currency) = CurrencyLen

\* C7: a payload that fails structural validation never gets a record or a
\* completion task, so every stored record has a positive amount and
\* non-empty transaction_id, source_account and destination_account.
C7_OnlyValidStored ==
    /\ \A q \in Requests :
          ~StructurallyValid(q.payload) => ~InsertCommitted(q) /\ q.task = "none"
    /\ \A row \in store :
          /\ row.amount.whole > 0 \/ row.amount.cents > 0
          /\ row.transaction_id # ""
          /\ row.source_account # ""
          /\ row.destination_account # ""

\* C8: the list returns at most 1000 records whatever the limit, and for an
\* offset at or beyond the number of stored records it returns 200 with an
\* empty sequence, not an error (the store being reachable).
C8_PaginationBounds ==
    resp.op = "list" /\ resp.cause # "store" =>
        /\ resp.code = OkCode => Len(resp.body) <= MaxLimit
        /\ resp.offset >= Cardinality(store) =>
              resp.code = OkCode /\ resp.body = <<>>

\* C9: GET /v1/transactions/{id} answers 500 when the store read fails;
\* otherwise 404 exactly when the table holds no row with that id, and 200
\* with the fields of the row as they are now when it holds one.
C9_GetById ==
    resp.op = "get" =>
        /\ resp.cause = "store" => resp.code = ServerErrorCode
        /\ resp.cause # "store" =>
              /\ resp.code = NotFoundCode <=> RowsOf(resp.tid) = {}
              /\ RowsOf(resp.tid) # {} =>
                    /\ resp.code = OkCode
                    /\ \E row \in RowsOf(resp.tid) :
                          /\ resp.body.transaction_id = resp.tid
                          /\ resp.body.source_account = row.source_account
                          /\ resp.body.destination_account = row.destination_account
                          /\ resp.body.amount.whole = row.amount.whole
                          /\ resp.body.amount.frac = 10 * row.amount.cents
                          /\ resp.body.currency = row.currency
                          /\ resp.body.status = row.status
                          /\ resp.body.created_at = [iso |-> row.created_at, suffix |-> "Z"]
                          /\ resp.body.processed_at =
                                IF row.processed_at = NULL THEN None
                                ELSE [iso |-> row.processed_at, suffix |-> "Z"]

\* With tx1 stored, a GET of an id the table does not hold is answered 404.
C9_Witness ==
    /\ resp.op = "get" /\ resp.code = NotFoundCode /\ resp.tid = "unknown"
    /\ RowsOf("tx1") # {}

\* The rows newer than, and not older than, a listed record.
NewerThan(item) == {row \in store : row.created_at > item.created_at.iso}
NotOlderThan(item) == {row \in store : row.created_at >= item.created_at.iso}

\* C10: a returned list is ordered by created_at descending and is the
\* window [offset, offset + limit) of a newest-first ordering of the table
\* as it is at the read: it has the window's length, holds distinct stored
\* records, and its k-th record has the rank offset + k in the table.
C10_NewestFirstWindow ==
    resp.op = "list" /\ resp.code = OkCode =>
        LET L == resp.body
            n == Cardinality(store)
            len == IF resp.offset >= n THEN 0 ELSE Min(resp.sqlLimit, n - resp.offset)
        IN  /\ Len(L) = len
            /\ \A i, j \in 1..Len(L) :
                  i < j => /\ L[i].created_at.iso >= L[j].created_at.iso
                           /\ L[i].transaction_id # L[j].transaction_id
            /\ \A k \in 1..Len(L) :
                  /\ \E row \in store :
                        /\ row.transaction_id = L[k].transaction_id
                        /\ row.created_at = L[k].created_at.iso
                        /\ row.status = L[k].status
                  /\ Cardinality(NewerThan(L[k])) <= resp.offset + k - 1
                  /\ Cardinality(NotOlderThan(L[k])) >= resp.offset + k

\* Two records created at different times are listed, the newer first.
C10_Witness ==
    /\ resp.op = "list" /\ resp.code = OkCode
    /\ Len(resp.body) = 2
    /\ resp.body[1].created_at.iso > resp.body[2].created_at.iso

\* The deliveries of tid for which a completion task was ever added.
Scheduled(tid, q) == q.payload.transaction_id = tid /\ q.task # "none"

\* C11 as stated: in every reachable state the number of completion tasks ever
\* scheduled for an id equals the number of records stored for that id.
C11_TasksEqualRecords ==
    \A tid \in Tids :
        LET Sched(q) == Scheduled(tid, q)
        IN  Count(Sched) = Cardinality(RowsOf(tid))

\* C11 as amended: a request has scheduled a completion task if and only if
\* its insert returned a row, its commit succeeded and it has returned; a
\* request that saw the row already there schedules nothing.  The number of
\* tasks ever scheduled for an id is at most the number of records stored for
\* it (0 or 1), and equals it when no handler stands between the commit of
\* that record and its return.
C11_ScheduledIffInserted ==
    /\ \A q \in Requests :
          /\ q.task # "none" <=> InsertCommitted(q) /\ Answered(q)
          /\ q.pc \in {"committed", "responded"} /\ ~q.result => q.task = "none"
    /\ \A tid \in Tids :
          LET Sched(q) == Scheduled(tid, q)
              Returning(q) == /\ q.payload.transaction_id = tid
                              /\ q.result /\ q.pc = "committed"
          IN  /\ Count(Sched) <= Cardinality(RowsOf(tid))
              /\ Cardinality(RowsOf(tid)) <= 1
              /\ Count(Returning) = 0 => Count(Sched) = Cardinality(RowsOf(tid))

\* One delivery inserted tx1 and its task was added; a second one found the
\* row, committed and returned without adding a task.
C11_Witness ==
    /\ Cardinality(RowsOf("tx1")) = 1
    /\ \E q \in Requests : Scheduled("tx1", q) /\ q.result
    /\ \E q \in Requests :
          /\ q.payload.transaction_id = "tx1" /\ q.log = "duplicate"
          /\ Answered(q) /\ q.task = "none"

\* C12: the update that marks a record processed applies only to a record
\* that is PROCESSING; applied to a record that is already PROCESSED it
\* leaves status, processed_at and updated_at as they were.
C12_ConditionalUpdate ==
    resp.op = "update" =>
        \A before \in resp.before :
            before.status = "PROCESSED" =>
                \E after \in RowsOf(resp.tid) :
                    /\ after.status = before.status
                    /\ after.processed_at = before.processed_at
                    /\ after.updated_at = before.updated_at

\* C13: in every reachable state every stored record is PROCESSING or
\* PROCESSED, and its processed_at is set if and only if it is PROCESSED.
C13_ProcessedAtIffProcessed ==
    \A row \in store :
        /\ row.status \in {"PROCESSING", "PROCESSED"}
        /\ row.processed_at # NULL <=> row.status = "PROCESSED"

\* The table holds a PROCESSED record with its processed_at next to a
\* PROCESSING one without.
C13_Witness ==
    \E a, b \in store :
        /\ a.status = "PROCESSED" /\ a.processed_at # NULL
        /\ b.status = "PROCESSING" /\ b.processed_at = NULL

\* The deliveries whose completion task has failed.
TaskFailed(q) == q.task = "failed"

C14_State ==
    /\ \A q \in Requests :
          TaskFailed(q) =>
              \* the record is there, PROCESSING, with no processed_at
              /\ RowsOf(q.payload.transaction_id) # {}
              /\ \A row \in RowsOf(q.payload.transaction_id) :
                    row.status = "PROCESSING" /\ row.processed_at = NULL
              \* no other completion task exists for the id
              /\ \A o \in Requests :
                    o.payload.transaction_id = q.payload.transaction_id /\ o # q
                        => o.task = "none"
              /\ CopiesIn(q, req) = 1
              \* the caller of the webhook was answered 202 and nothing else
              /\ q.pc = "responded" /\ q.response = Accepted
    \* a reader is shown the record as PROCESSING, not an error
    /\ /\ resp.op = "get" /\ resp.cause = "none"
       /\ \E q \in Requests : TaskFailed(q) /\ q.payload.transaction_id = resp.tid
       => /\ resp.code = OkCode
                 /\ resp.body.status = "PROCESSING"
                 /\ resp.body.processed_at = None

\* A failed task stays failed: no step starts it again.
C14_Step ==
    \A q \in Requests :
        TaskFailed(q) => q \in BagToSet(req') /\ CopiesIn(q, req') >= CopiesIn(q, req)

\* C14: once a completion task has failed (slow step, connection, update or
\* commit), its record stays PROCESSING with processed_at null in every later
\* state, no second completion is started for it, and no caller sees the
\* failure.
C14_FailedStaysProcessing == [](C14_State) /\ [][C14_Step]_vars

\* The commit of a task's update failed; later, with time passed, a GET
\* of that transaction shows it PROCESSING.
C14_Witness ==
    /\ resp.op = "get" /\ resp.code = OkCode /\ resp.body.status = "PROCESSING"
    /\ clock = MaxClock
    /\ \E q \in Requests : TaskFailed(q) /\ q.payload.transaction_id = resp.tid

\* The deliveries whose handler took the except branch.
Errored(q) == q.log = "error"

C15_State ==
    /\ \A q \in Requests :
          Errored(q) =>
              /\ q.pc = "responded" /\ q.response = Accepted
              /\ q.task = "none"
              /\ q.pending = NoPending
    \* every stored record was committed by a handler that did not fail
    /\ Cardinality(store) = Count(InsertCommitted)

\* The step in which a handler takes the except branch changes no record.
C15_Step == Count(Errored)' > Count(Errored) => store' = store

\* C15: when the store fails on the ingestion path (connection, insert or
\* commit raises) the handler still answers 202, the stored records are as
\* they were before the request, and no completion task is scheduled for it.
C15_StoreFailureSwallowed == [](C15_State) /\ [][C15_Step]_vars

\* The only delivery so far ran its INSERT and failed at the commit: it was
\* answered 202 and the table is still empty.
C15_Witness ==
    /\ store = {} /\ nextId = 2 /\ BagCardinality(req) = 1
    /\ \E q \in Requests :
          /\ Errored(q) /\ ColumnsAccept(q.payload)
          /\ q.response = Accepted /\ q.task = "none"

\* C16: for each transaction_id the committed insert comes before the update
\* that marks it PROCESSED: a completion task exists, and runs its update,
\* only for an id whose record is stored, and a record is PROCESSED only if a
\* completion task scheduled for its id got through its slow step and
\* committed.
C16_InsertBeforeUpdate ==
    /\ \A q \in Requests :
          /\ q.task # "none" => RowsOf(q.payload.transaction_id) # {}
          /\ q.task = "updated" =>
                /\ q.ids # {}
                /\ q.ids = {row.id : row \in RowsOf(q.payload.transaction_id)}
          /\ q.task # "updated" => q.ids = {}
    /\ \A row \in store :
          row.status = "PROCESSED" =>
              \E q \in Requests :
                  /\ q.payload.transaction_id = row.transaction_id
                  /\ q.task = "done"
                  /\ row.processed_at >= row.created_at

\* A task's update has run against the stored record of its id and is not
\* committed yet.
C16_Witness ==
    \E q \in Requests :
        /\ q.task = "updated" /\ q.ids # {}
        /\ \A row \in RowsOf(q.payload.transaction_id) :
              row.id \in q.ids /\ row.status = "PROCESSING"

\* A step in which a query is answered.
QueryStep == resp' # resp /\ resp'.op \in {"get", "list"}

C17_Step == QueryStep => store' = store /\ req' = req /\ nextId' = nextId

\* C17: the two queries are read-only: answering either, in any state and
\* between any two steps of the webhook handlers and the completion tasks,
\* leaves every stored record, every handler and every completion task as
\* it was.
C17_QueriesReadOnly == [][C17_Step]_vars

\* A list is answered while one handler holds an uncommitted insert and the
\* completion task of a stored record is in its slow step.
C17_Witness ==
    /\ resp.op = "list" /\ resp.code = OkCode /\ Len(resp.body) = 1
    /\ \E q \in Requests : q.pc = "executed" /\ q.pending # NoPending
    /\ \E q \in Requests : q.task = "sleeping"

\* Every stored record carries the values of the delivery that inserted it.
C18_State ==
    \A row \in store :
        \E q \in Requests :
            /\ InsertCommitted(q)
            /\ row.transaction_id = q.payload.transaction_id
            /\ row.source_account = q.payload.source_account
            /\ row.destination_account = q.payload.destination_account
            /\ row.amount = ToDecimal2(q.payload.amount)
            /\ row.currency = q.payload.currency

\* No step changes the delivered values or created_at of a stored record,
\* and no step but the commit of a completion task changes anything of it.
C18_Step ==
    LET Done(q) == q.task = "done"
    IN  /\ \A row \in store :
              \E after \in store' :
                  /\ after.id = row.id
                  /\ after.transaction_id = row.transaction_id
                  /\ after.source_account = row.source_account
                  /\ after.destination_account = row.destination_account
                  /\ after.amount = row.amount
                  /\ after.currency = row.currency
                  /\ after.created_at = row.created_at
        /\ Count(Done)' = Count(Done) => store \subseteq store'

\* C18: a duplicate delivery does nothing to the stored record: whatever
\* its source_account, destination_account, amount or currency, and whether
\* the record is PROCESSING or PROCESSED, every field of the record stays
\* as it was, so the values of the first delivery are kept for good.
C18_DuplicateLeavesRecord == [](C18_State) /\ [][C18_Step]_vars

\* tx1 is stored PROCESSED with the first delivery's values, and a later
\* delivery of tx1 with other values has been answered as a duplicate.
C18_Witness ==
    /\ \E row \in RowsOf("tx1") :
          /\ row.status = "PROCESSED"
          /\ row.source_account = "A" /\ row.currency = "USD"
    /\ \E q \in Requests :
          /\ q.payload.transaction_id = "tx1" /\ q.payload.source_account = ""
          /\ q.log = "duplicate" /\ Answered(q)

\* The step in which the completion task of an id commits leaves the
\* records of every other id as they were.
C19_Step ==
    \A tid \in Tids :
        LET DoneFor(q) == q.payload.transaction_id = tid /\ q.task = "done"
        IN  Count(DoneFor)' > Count(DoneFor) =>
                /\ \A row \in store : row.transaction_id # tid => row \in store'
                /\ \A row \in store' : row.transaction_id # tid => row \in store

\* C19: a completion task for transaction_id X changes only the record
\* whose transaction_id is X; the records of other ids keep every field,
\* however the tasks of distinct ids interleave.
C19_TaskTouchesOwnRecord == [][C19_Step]_vars

\* Completion tasks of two ids are under way at once: one has committed and
\* its record is PROCESSED, the other has run its update and not committed,
\* and its record is still PROCESSING.
C19_Witness ==
    \E q, o \in Requests :
        /\ q.payload.transaction_id # o.payload.transaction_id
        /\ q.task = "done" /\ o.task = "updated"
        /\ \A row \in RowsOf(q.payload.transaction_id) : row.status = "PROCESSED"
        /\ \E row \in RowsOf(o.payload.transaction_id) : row.status = "PROCESSING"

\* Deliveries whose body passes WebhookRequest and holds a value a column
\* of the table refuses.
Refused(q) == ValidWebhookRequest(q.payload) /\ ~ColumnsAccept(q.payload)

\* C20: a payload that passes request validation and is refused by a column
\* of the table (currency longer than 3 characters, amount too large for
\* DECIMAL(10, 2)) is answered 202 and dropped: that request stores no
\* record and schedules no completion task, and a GET of its id is answered
\* 404 unless another delivery inserted the id.
C20_RefusedByColumnsDropped ==
    /\ \A q \in Requests :
          Refused(q) /\ q.pc # "received" =>
              /\ q.pc = "responded" /\ q.response = Accepted
              /\ ~q.result /\ q.pending = NoPending
              /\ q.task = "none"
    /\ \A row \in store :
          /\ Len(row.currency) <= CurrencyLen
          /\ row.amount.whole < 10^(DecimalPrecision - DecimalScale)
          /\ \E q \in Requests :
                /\ ~Refused(q) /\ InsertCommitted(q)
                /\ q.payload.transaction_id = row.transaction_id
    /\ resp.op = "get" /\ resp.cause = "none" =>
          LET InsertedBy(q) ==
                  /\ q.payload.transaction_id = resp.tid
                  /\ ~Refused(q) /\ InsertCommitted(q)
          IN  Count(InsertedBy) = 0 => resp.code = NotFoundCode

\* A delivery of tx1 with a four-letter currency and one with an amount
\* of eleven digits have both been answered 202, and a GET of tx1 is
\* answered 404.
C20_Witness ==
    /\ resp.op = "get" /\ resp.code = NotFoundCode /\ resp.tid = "tx1"
    /\ \E q \in Requests :
          /\ Len(q.payload.currency) > CurrencyLen
          /\ q.response = Accepted /\ q.log = "error"
    /\ \E q \in Requests :
          /\ q.payload.amount.whole >= 10^(DecimalPrecision - DecimalScale)
          /\ q.response = Accepted /\ q.log = "error"

====
